---- MODULE Spec2Model ----
(***************************************************************************)
(* Order-fulfilment pipeline of the e-commerce backend: cart, checkout,    *)
(* stock reservation, coupons, payments, webhooks and order status.        *)
(*                                                                         *)
(* Money is counted in cents (the DecimalField columns hold two decimal    *)
(* places).  Values computed by the cart before they are stored are kept   *)
(* in hundredths of a cent, so that the rounding done when a value is      *)
(* written to a two-decimal column is a real step of the model.            *)
(* Product variations are not modelled: every line has variation = None,   *)
(* so a (product, variation) pair is identified by its product.            *)
(***************************************************************************)
EXTENDS Integers, Sequences, FiniteSets, TLC

----------------------------------------------------------------------------
(* Bounds of the model *)

NumUsers == 2
NumProducts == 1
InitQuantity == 2
MaxQty == 2
MaxCartQty == 2
MaxOrders == 2
MaxPayments == 2
MaxHistory == 3
MaxOrderValue == 20

----------------------------------------------------------------------------
(* Catalogue, users, coupons *)

Users == 1..NumUsers

\* Product 0 has no Stock row ("no stock tracking configured"); the others do.
Products == 0..NumProducts

StockedProducts == {p \in Products : p > 0}

HasStock(p) == p \in StockedProducts

\* Product.current_price in cents.
Price(p) == 101 + 50 * p

None == "none"

\* A NULL column of a PositiveIntegerField / DecimalField (null=True).
Null == -1

\* Python truthiness of a nullable number: None and 0 are both false.
Truthy(x) == x # Null /\ x # 0

CouponCodes == {"HALF", "BIG", "FIXED"}

\* With a coupon that carries a maximum discount.
AllCouponCodes == CouponCodes \cup {"CAPPED"}

\* The coupon rows of the database; only times_used changes.
CouponCfg(c) ==
    CASE c = "HALF" ->
           [discount_type |-> "percentage", discount_value |-> 50,
            max_discount |-> Null, min_order_value |-> 0,
            usage_limit |-> 1, usage_limit_per_user |-> 1, is_active |-> TRUE]
      [] c = "BIG" ->
           [discount_type |-> "percentage", discount_value |-> 150,
            max_discount |-> Null, min_order_value |-> 0,
            usage_limit |-> Null, usage_limit_per_user |-> 1, is_active |-> TRUE]
      [] c = "CAPPED" ->
           [discount_type |-> "percentage", discount_value |-> 50,
            max_discount |-> 60, min_order_value |-> 0,
            usage_limit |-> Null, usage_limit_per_user |-> 1, is_active |-> TRUE]
      [] OTHER ->
           [discount_type |-> "fixed", discount_value |-> 120,
            max_discount |-> Null, min_order_value |-> 150,
            usage_limit |-> Null, usage_limit_per_user |-> 1, is_active |-> TRUE]

OrderStatuses ==
    {"pending", "awaiting_payment", "paid", "processing",
     "shipped", "delivered", "cancelled", "refunded"}

PaymentStatuses ==
    {"pending", "processing", "approved", "rejected", "refunded", "cancelled"}

Gateways == {"mercadopago", "stripe"}

\* Session keys of anonymous browser sessions.
SessionKeys == {"s1", "s2"}

\* Requests that are being served at the same time.
Procs == {1, 2}

\* How the database rounds a decimal to the two places of its column:
\* Django's format_number quantizes half-even (SQLite, MySQL, Oracle);
\* PostgreSQL's numeric(10,2) rounds half away from zero.
RoundingModes == {"half_even", "half_up"}

----------------------------------------------------------------------------
(* State *)

VARIABLES
    stock,        \* Stock rows: product -> [quantity, reserved_quantity]
    order_count,  \* Product.order_count
    carts,        \* Cart row of each user: [exists, items, coupon]
    times_used,   \* Coupon.times_used
    usages,       \* CouponUsage rows
    orders,       \* Order rows with their items and status history
    payments,     \* Payment rows
    released,     \* per order: how often its reservation was taken off stock
    session_carts, \* Cart rows owned by a session key: [exists, items]
    inflight,     \* per process: the request it is in the middle of
    lastOp        \* the last request served and its outcome

vars == <<stock, order_count, carts, times_used, usages, orders, payments,
          released, session_carts, inflight, lastOp>>

\* The database as one value, so that a request is a function on it.
DB ==
    [stock |-> stock, order_count |-> order_count, carts |-> carts,
     times_used |-> times_used, usages |-> usages, orders |-> orders,
     payments |-> payments, released |-> released,
     session_carts |-> session_carts]

\* The rows written by a request reach the database.
Write(db) ==
    /\ stock' = db.stock
    /\ order_count' = db.order_count
    /\ carts' = db.carts
    /\ times_used' = db.times_used
    /\ usages' = db.usages
    /\ orders' = db.orders
    /\ payments' = db.payments
    /\ released' = db.released
    /\ session_carts' = db.session_carts

\* A request served in one piece: its writes reach the database and the
\* requests in flight stay where they are.
Commit(db) == Write(db) /\ UNCHANGED inflight

\* A process that serves no request.
Idle == [op |-> "idle"]

NoItems == [p \in Products |-> 0]

Init ==
    /\ stock = [p \in StockedProducts |->
                   [quantity |-> InitQuantity, reserved_quantity |-> 0]]
    /\ order_count = [p \in Products |-> 0]
    /\ carts = [u \in Users |->
                   [exists |-> FALSE, items |-> NoItems, coupon |-> None]]
    /\ times_used = [c \in AllCouponCodes |-> 0]
    /\ usages = {}
    /\ orders = <<>>
    /\ payments = <<>>
    /\ released = <<>>
    /\ session_carts = [k \in SessionKeys |->
                           [exists |-> FALSE, items |-> NoItems]]
    /\ inflight = [pr \in Procs |-> Idle]
    /\ lastOp = [op |-> "init", arg |-> <<>>, res |-> "ok"]

----------------------------------------------------------------------------
(* Transactions and column constraints *)

\* transaction.atomic: the block's writes are kept when it ends normally
\* and undone when an exception leaves it.
TxResultKeepsPartial(committed, pre, post) == post

TxResult(committed, pre, post) == IF committed THEN post ELSE pre

\* PositiveIntegerField: the column carries CHECK (value >= 0); saving a
\* negative value raises IntegrityError.
PositiveIntegerUnchecked(v) == TRUE

PositiveIntegerOk(v) == v >= 0

\* DecimalField(max_digits=10, decimal_places=2): a value in hundredths of
\* a cent is rounded to whole cents when the row is written.
Quantize(x, mode) ==
    LET q == x \div 100
        r == x % 100
    IN  IF mode = "half_up"
        THEN (IF r >= 50 THEN q + 1 ELSE q)
        ELSE (IF r > 50 \/ (r = 50 /\ q % 2 = 1) THEN q + 1 ELSE q)

Min(a, b) == IF a <= b THEN a ELSE b

Max(a, b) == IF a >= b THEN a ELSE b

----------------------------------------------------------------------------
(* Stock *)

\* Stock.available_quantity
AvailableQuantity(s) == Max(0, s.quantity - s.reserved_quantity)

----------------------------------------------------------------------------
(* Coupons *)

\* Coupon.is_valid (the coupons of the model are inside their validity
\* window, so only is_active and the usage limit decide).
IsValid(c, used) ==
    LET cfg == CouponCfg(c)
    IN  /\ cfg.is_active
        /\ ~(Truthy(cfg.usage_limit) /\ used >= cfg.usage_limit)

\* Coupon.calculate_discount for a coupon row cfg and an order value in
\* cents; the result is in hundredths of a cent.
CalculateDiscount(cfg, order_value) ==
    IF cfg.discount_type = "percentage"
    THEN LET d == order_value * cfg.discount_value
         IN  IF Truthy(cfg.max_discount)
             THEN Min(d, cfg.max_discount * 100)
             ELSE d
    ELSE Min(cfg.discount_value, order_value) * 100

\* The coupon rows calculate_discount is applied to: a percentage or a
\* fixed amount in cents, with or without a maximum discount in cents.
DiscountTypes == {"percentage", "fixed"}

DiscountValues == {0, 10, 50, 100, 150}

MaxDiscounts == {Null, 0, 5}

\* A call of Coupon.calculate_discount; res is the amount returned.
CalculateDiscountCall(type, value, max, order_value) ==
    /\ Commit(DB)
    /\ lastOp' = [op |-> "calculateDiscount",
                  arg |-> <<type, value, max, order_value>>,
                  res |-> CalculateDiscount(
                              [discount_type |-> type, discount_value |-> value,
                               max_discount |-> max], order_value)]

----------------------------------------------------------------------------
(* Cart *)

CartLines(cart) == {p \in Products : cart.items[p] > 0}

\* CartItem.total_price = unit_price * quantity
ItemTotalPrice(p, q) == Price(p) * q

RECURSIVE SumLines(_, _)
SumLines(S, items) ==
    IF S = {} THEN 0
    ELSE LET p == CHOOSE x \in S : TRUE
         IN  ItemTotalPrice(p, items[p]) + SumLines(S \ {p}, items)

\* Cart.subtotal, in cents.
CartSubtotal(cart) == SumLines(CartLines(cart), cart.items)

\* Cart.discount, in hundredths of a cent.
CartDiscount(cart, used) ==
    IF cart.coupon = None THEN 0
    ELSE IF ~IsValid(cart.coupon, used[cart.coupon]) THEN 0
    ELSE LET cfg == CouponCfg(cart.coupon)
             sub == CartSubtotal(cart)
         IN  IF cfg.discount_type = "percentage"
             THEN LET d == sub * cfg.discount_value
                  IN  IF Truthy(cfg.max_discount)
                      THEN Min(d, cfg.max_discount * 100)
                      ELSE d
             ELSE Min(cfg.discount_value, sub) * 100

\* Cart.total, in hundredths of a cent.
CartTotalUnclamped(cart, used) ==
    CartSubtotal(cart) * 100 - CartDiscount(cart, used)

CartTotal(cart, used) ==
    Max(0, CartSubtotal(cart) * 100 - CartDiscount(cart, used))

\* "if created:" in CartMixin.get_cart: the session cart is merged only by
\* the request that creates the user's cart.
MergeDueAlways(created) == TRUE

MergeDue(created) == created

\* The merge loop of CartMixin.get_cart and session_cart.delete().
MergeSessionCart(db, u, sk) ==
    [db EXCEPT
       !.carts[u].items =
           [p \in Products |-> @[p] + db.session_carts[sk].items[p]],
       !.session_carts[sk] = [exists |-> FALSE, items |-> NoItems]]

\* CartMixin.get_cart for an authenticated user whose request carries the
\* session key sk (None: no session).
GetCartSession(db, u, sk) ==
    LET created == ~db.carts[u].exists
        d1 == [db EXCEPT !.carts[u].exists = TRUE]
    IN  IF MergeDue(created) /\ sk # None /\ db.session_carts[sk].exists
        THEN MergeSessionCart(d1, u, sk)
        ELSE d1

\* CartMixin.get_cart for an authenticated user without a session.
GetCart(db, u) == GetCartSession(db, u, None)

\* CartView.get by user u with session key sk.
ViewCart(u, sk) ==
    /\ Commit(GetCartSession(DB, u, sk))
    /\ lastOp' = [op |-> "viewCart", arg |-> <<u, sk>>, res |-> "ok"]

\* CartItemView.post by an anonymous visitor with session key sk.
SessionAddItem(sk, p, q) ==
    LET db == [DB EXCEPT !.session_carts[sk].exists = TRUE]
        cart == db.session_carts[sk]
    IN  /\ cart.items[p] + q <= MaxCartQty
        /\ IF HasStock(p) /\ AvailableQuantity(db.stock[p]) < q
           THEN /\ Commit(db)
                /\ lastOp' = [op |-> "sessionAddItem", arg |-> <<sk, p>>,
                              res |-> "InsufficientStock"]
           ELSE /\ Commit([db EXCEPT !.session_carts[sk].items[p] = @ + q])
                /\ lastOp' = [op |-> "sessionAddItem", arg |-> <<sk, p>>,
                              res |-> "ok"]

\* Cart.clear
ClearCart(db, u) ==
    [db EXCEPT !.carts[u].items = NoItems, !.carts[u].coupon = None]

\* CartItemView.post
AddItem(u, p, q) ==
    LET db == GetCart(DB, u)
        cart == db.carts[u]
    IN  /\ cart.items[p] + q <= MaxCartQty
        /\ IF HasStock(p) /\ AvailableQuantity(db.stock[p]) < q
           THEN /\ Commit(db)
                /\ lastOp' = [op |-> "addItem", arg |-> <<u, p>>,
                              res |-> "InsufficientStock"]
           ELSE /\ Commit([db EXCEPT !.carts[u].items[p] = @ + q])
                /\ lastOp' = [op |-> "addItem", arg |-> <<u, p>>,
                              res |-> "ok"]

\* CartItemDetailView.patch
UpdateItemQuantity(u, p, q) ==
    LET db == GetCart(DB, u)
        cart == db.carts[u]
    IN  IF cart.items[p] = 0
        THEN /\ Commit(db)
             /\ lastOp' = [op |-> "updateItem", arg |-> <<u, p>>,
                           res |-> "NotFound"]
        ELSE IF HasStock(p) /\ AvailableQuantity(db.stock[p]) < q
        THEN /\ Commit(db)
             /\ lastOp' = [op |-> "updateItem", arg |-> <<u, p>>,
                           res |-> "InsufficientStock"]
        ELSE /\ Commit([db EXCEPT !.carts[u].items[p] = q])
             /\ lastOp' = [op |-> "updateItem", arg |-> <<u, p>>,
                           res |-> "ok"]

\* CartCouponView.post; code = None stands for a code no coupon has.
ApplyCoupon(u, code) ==
    LET db == GetCart(DB, u)
        cart == db.carts[u]
    IN  IF code = None
        THEN /\ Commit(db)
             /\ lastOp' = [op |-> "applyCoupon", arg |-> <<u>>,
                           res |-> "CouponNotFound"]
        ELSE IF ~IsValid(code, db.times_used[code])
        THEN /\ Commit(db)
             /\ lastOp' = [op |-> "applyCoupon", arg |-> <<u>>,
                           res |-> "CouponInvalid"]
        ELSE IF CartSubtotal(cart) < CouponCfg(code).min_order_value
        THEN /\ Commit(db)
             /\ lastOp' = [op |-> "applyCoupon", arg |-> <<u>>,
                           res |-> "MinOrderNotMet"]
        ELSE /\ Commit([db EXCEPT !.carts[u].coupon = code])
             /\ lastOp' = [op |-> "applyCoupon", arg |-> <<u>>,
                           res |-> "ok"]

----------------------------------------------------------------------------
(* Checkout *)

\* "Cart.objects.get raises DoesNotExist, or cart.items.count() == 0".
CartIsEmptyOnlyMissing(cart) == ~cart.exists

CartIsEmpty(cart) == ~cart.exists \/ CartLines(cart) = {}

\* OrderItem.save: total_price = unit_price * quantity
OrderItemTotalPriceUnit(unit_price, quantity) == unit_price

OrderItemTotalPrice(unit_price, quantity) == unit_price * quantity

\* The reservation of the checkout loop: for a line whose product has a
\* Stock row, reserved_quantity += quantity.
ReserveStockFromOnHand(stk, items) ==
    [p \in StockedProducts |->
        [quantity |-> stk[p].quantity - items[p],
         reserved_quantity |-> stk[p].reserved_quantity + items[p]]]

ReserveStock(stk, items) ==
    [p \in StockedProducts |->
        [stk[p] EXCEPT !.reserved_quantity = @ + items[p]]]

\* The steps of CheckoutView.post after the cart and address checks, in
\* order: 1 the Order row, 2 the OrderItem rows with the stock reservation
\* and the product order count, 3 the coupon usage, 4 the first history
\* row, 5 the cleared cart.  CheckoutUpTo is the database after step k.
CheckoutSteps == 5

CheckoutUpTo(db, u, mode, k) ==
    LET cart == db.carts[u]
        o == Len(db.orders) + 1
        row == [user |-> u,
                status |-> "pending",
                subtotal |-> CartSubtotal(cart),
                shipping_cost |-> 0,
                discount |-> Quantize(CartDiscount(cart, db.times_used), mode),
                total |-> Quantize(CartTotal(cart, db.times_used), mode),
                coupon |-> cart.coupon,
                items |-> [p \in {} |-> 0],
                history |-> <<>>]
        d1 == [db EXCEPT !.orders = Append(db.orders, row),
                         !.released = Append(db.released, 0)]
        d2 == [d1 EXCEPT
                 !.orders[o].items =
                     [p \in CartLines(cart) |->
                         [quantity |-> cart.items[p],
                          unit_price |-> Price(p),
                          total_price |->
                              OrderItemTotalPrice(Price(p), cart.items[p])]],
                 !.stock = ReserveStock(db.stock, cart.items),
                 !.order_count =
                     [p \in Products |-> db.order_count[p] + cart.items[p]]]
        d3 == IF cart.coupon # None
              THEN [d2 EXCEPT
                      !.usages = db.usages \cup
                          {[coupon |-> cart.coupon, user |-> u, order |-> o]},
                      !.times_used[cart.coupon] = @ + 1]
              ELSE d2
        d4 == [d3 EXCEPT
                 !.orders[o].history =
                     <<[status |-> "pending", notes |-> "Order created"]>>]
        d5 == ClearCart(d4, u)
    IN  CASE k = 0 -> db
          [] k = 1 -> d1
          [] k = 2 -> d2
          [] k = 3 -> d3
          [] k = 4 -> d4
          [] OTHER -> d5

\* CheckoutView.post.  addrOk: the address ids belong to the user.
\* done: how many steps ran before an exception left the view
\* (CheckoutSteps: none was raised).  sent: the call
\* send_order_confirmation_email.delay(order.id), made inside the atomic
\* block after the last step, returned (FALSE: it raised, the broker being
\* unreachable).  cap: the orders the run may hold.
Checkout(u, addrOk, mode, done, sent, cap) ==
    LET cart == carts[u]
    IN  /\ Len(orders) < cap
        /\ IF CartIsEmpty(cart)
           THEN /\ done = CheckoutSteps
                /\ Commit(DB)
                /\ lastOp' = [op |-> "checkout", arg |-> <<u>>,
                              res |-> "CartEmpty"]
           ELSE IF ~addrOk
           THEN /\ done = CheckoutSteps
                /\ Commit(DB)
                /\ lastOp' = [op |-> "checkout", arg |-> <<u>>,
                              res |-> "AddressNotFound"]
           ELSE /\ Commit(TxResult(done = CheckoutSteps /\ sent, DB,
                                   CheckoutUpTo(DB, u, mode, done)))
                /\ lastOp' = [op |-> "checkout", arg |-> <<u>>,
                              res |-> IF done # CheckoutSteps THEN "error"
                                      ELSE IF sent THEN "ok"
                                      ELSE "NotificationError"]

----------------------------------------------------------------------------
(* Order status *)

\* Order.can_cancel
CanCancelAlsoCancelled(status) ==
    status \in {"pending", "awaiting_payment", "paid", "cancelled"}

CanCancelAlsoShipped(status) ==
    status \in {"pending", "awaiting_payment", "paid", "shipped"}

CanCancel(status) == status \in {"pending", "awaiting_payment", "paid"}

\* The loop of OrderViewSet.cancel: reserved_quantity = max(0, reserved - qty)
ReleaseStock(stk, items) ==
    [p \in StockedProducts |->
        IF p \in DOMAIN items
        THEN [stk[p] EXCEPT
                !.reserved_quantity = Max(0, @ - items[p].quantity)]
        ELSE stk[p]]

\* The loop of OrderAdminViewSet.update_status for "shipped":
\* quantity -= qty; reserved_quantity -= qty
CommitStockReservedOnly(stk, items) ==
    [p \in StockedProducts |->
        IF p \in DOMAIN items
        THEN [stk[p] EXCEPT
                !.reserved_quantity = @ - items[p].quantity]
        ELSE stk[p]]

CommitStock(stk, items) ==
    [p \in StockedProducts |->
        IF p \in DOMAIN items
        THEN [quantity |-> stk[p].quantity - items[p].quantity,
              reserved_quantity |->
                  stk[p].reserved_quantity - items[p].quantity]
        ELSE stk[p]]

\* Every Stock row satisfies the CHECK constraints of its columns.
StockRowsOk(stk) ==
    \A p \in StockedProducts :
        /\ PositiveIntegerOk(stk[p].quantity)
        /\ PositiveIntegerOk(stk[p].reserved_quantity)

\* OrderStatusHistory.objects.create
AddHistory(db, o, status, notes) ==
    [db EXCEPT !.orders[o].history =
                   Append(@, [status |-> status, notes |-> notes])]

\* OrderViewSet.cancel, called by user u on order o.
Cancel(u, o) ==
    /\ o \in 1..Len(orders)
    /\ IF orders[o].user # u
       THEN /\ Commit(DB)
            /\ lastOp' = [op |-> "cancel", arg |-> <<u, o>>,
                          res |-> "NotFound"]
       ELSE IF ~CanCancel(orders[o].status)
       THEN /\ Commit(DB)
            /\ lastOp' = [op |-> "cancel", arg |-> <<u, o>>,
                          res |-> "OrderNotCancellable"]
       ELSE /\ Len(orders[o].history) < MaxHistory
            /\ Commit(AddHistory(
                   [DB EXCEPT
                      !.stock = ReleaseStock(stock, orders[o].items),
                      !.orders[o].status = "cancelled",
                      !.released[o] = @ + 1],
                   o, "cancelled", "Cancelled by customer"))
            /\ lastOp' = [op |-> "cancel", arg |-> <<u, o>>, res |-> "ok"]

\* OrderAdminViewSet.update_status, called by an admin.
UpdateStatus(o, new_status) ==
    /\ o \in 1..Len(orders)
    /\ Len(orders[o].history) < MaxHistory
    /\ LET d1 == AddHistory([DB EXCEPT !.orders[o].status = new_status],
                            o, new_status, "")
           post == IF new_status = "shipped"
                   THEN [d1 EXCEPT
                           !.stock = CommitStock(stock, orders[o].items),
                           !.released[o] = @ + 1]
                   ELSE d1
           ok == StockRowsOk(post.stock)
       IN  /\ Commit(TxResult(ok, DB, post))
           /\ lastOp' = [op |-> "updateStatus", arg |-> <<o, new_status>>,
                         res |-> IF ok THEN "ok" ELSE "IntegrityError"]

----------------------------------------------------------------------------
(* Payments *)

\* Statuses the Mercado Pago API reports ("unknown": one the map lacks).
MercadoPagoStatuses ==
    {"approved", "in_mediation", "rejected", "unknown"}

\* Statuses of a Stripe PaymentIntent.
StripeStatuses ==
    {"processing", "succeeded", "unknown"}

GatewayStatuses(gw) ==
    IF gw = "mercadopago" THEN MercadoPagoStatuses ELSE StripeStatuses

\* MercadoPagoGateway._map_status
MercadoPagoMapStatus(s) ==
    CASE s = "pending" -> "pending"
      [] s = "approved" -> "approved"
      [] s \in {"authorized", "in_process", "in_mediation"} -> "processing"
      [] s = "rejected" -> "rejected"
      [] s = "cancelled" -> "cancelled"
      [] s \in {"refunded", "charged_back"} -> "refunded"
      [] OTHER -> "pending"

\* StripeGateway._map_status
StripeMapStatus(s) ==
    CASE s \in {"requires_payment_method", "requires_confirmation",
                "requires_action"} -> "pending"
      [] s \in {"processing", "requires_capture"} -> "processing"
      [] s = "succeeded" -> "approved"
      [] s = "canceled" -> "cancelled"
      [] OTHER -> "pending"

MapStatus(gw, s) ==
    IF gw = "mercadopago" THEN MercadoPagoMapStatus(s) ELSE StripeMapStatus(s)

\* CreatePaymentView.post by user u for order o.  success / raw: what the
\* gateway adapter answers (PaymentResult.success and the provider status).
\* cap: the payments the run may hold.
CreatePayment(u, o, gw, success, raw, cap) ==
    /\ o \in 1..Len(orders)
    /\ Len(payments) < cap
    /\ IF orders[o].user # u
       THEN /\ success /\ raw = "unknown"
            /\ Commit(DB)
            /\ lastOp' = [op |-> "createPayment", arg |-> <<u, o, gw>>,
                          res |-> "OrderNotFound"]
       ELSE IF orders[o].status \notin {"pending", "awaiting_payment"}
       THEN /\ success /\ raw = "unknown"
            /\ Commit(DB)
            /\ lastOp' = [op |-> "createPayment", arg |-> <<u, o, gw>>,
                          res |-> "OrderNotAwaitingPayment"]
       ELSE LET pid == Len(payments) + 1
                mapped == MapStatus(gw, raw)
                d1 == [DB EXCEPT !.payments =
                          Append(payments,
                                 [order |-> o, user |-> u, gateway |-> gw,
                                  status |-> "pending",
                                  gateway_payment_id |-> 0])]
                dFail == [d1 EXCEPT !.payments[pid].status = "rejected"]
                dOk == [d1 EXCEPT
                          !.payments[pid].status = mapped,
                          !.payments[pid].gateway_payment_id = pid,
                          !.orders[o].status =
                              IF mapped = "approved" THEN "paid"
                              ELSE "awaiting_payment"]
            IN  /\ ~success => raw = "unknown"
                /\ Commit(TxResult(success, DB,
                                   IF success THEN dOk ELSE dFail))
                /\ lastOp' = [op |-> "createPayment", arg |-> <<u, o, gw>>,
                              res |-> IF success THEN "ok"
                                      ELSE "PaymentFailed"]

\* "if payment.status != 'approved': raise BusinessLogicException"
RefundableAlsoPending(status) == status \in {"approved", "pending"}

Refundable(status) == status = "approved"

\* RefundPaymentView.post by user u for payment p; success: RefundResult.
Refund(u, p, success) ==
    /\ p \in 1..Len(payments)
    /\ IF payments[p].user # u
       THEN /\ success
            /\ Commit(DB)
            /\ lastOp' = [op |-> "refund", arg |-> <<u, p>>,
                          res |-> "PaymentNotFound"]
       ELSE IF ~Refundable(payments[p].status)
       THEN /\ success
            /\ Commit(DB)
            /\ lastOp' = [op |-> "refund", arg |-> <<u, p>>,
                          res |-> "NotApproved"]
       ELSE IF ~success
       THEN /\ Commit(DB)
            /\ lastOp' = [op |-> "refund", arg |-> <<u, p>>,
                          res |-> "RefundFailed"]
       ELSE /\ Commit([DB EXCEPT
                         !.payments[p].status = "refunded",
                         !.orders[payments[p].order].status = "refunded"])
            /\ lastOp' = [op |-> "refund", arg |-> <<u, p>>, res |-> "ok"]

\* Payment.objects.filter(gateway_payment_id=id).first(): 0 when none.
PaymentByGatewayId(pays, id) ==
    IF \E i \in 1..Len(pays) : pays[i].gateway_payment_id = id
    THEN CHOOSE i \in 1..Len(pays) :
             /\ pays[i].gateway_payment_id = id
             /\ \A j \in 1..Len(pays) :
                    pays[j].gateway_payment_id = id => i <= j
    ELSE 0

\* "payment.status != result['status']": a delivery is applied only when
\* it changes the payment's status.
StatusDiffersAlways(current, incoming) == TRUE

StatusDiffers(current, incoming) == current # incoming

\* MercadoPagoGateway.process_webhook: the internal status the handler
\* acts on; None when the result carries no id/status, "error" when the
\* status lookup at the gateway failed.
MercadoPagoProcessWebhook(action, id, raw) ==
    IF action = "payment.updated" /\ id # 0
    THEN (IF raw = "error" THEN "error" ELSE MercadoPagoMapStatus(raw))
    ELSE None

\* StripeGateway.process_webhook.  A payment_failed event is returned with
\* an "error" key, which the view reads as a processing error.
StripeProcessWebhook(sigOk, type) ==
    IF ~sigOk THEN "error"
    ELSE IF type = "payment_intent.succeeded" THEN "approved"
    ELSE IF type = "payment_intent.payment_failed" THEN "error"
    ELSE None

\* The body of MercadoPagoWebhookView.post once the result has id and status.
ApplyMercadoPago(db, id, status) ==
    LET p == PaymentByGatewayId(db.payments, id)
    IN  IF p # 0 /\ StatusDiffers(db.payments[p].status, status)
        THEN LET d1 == [db EXCEPT !.payments[p].status = status]
                 o == db.payments[p].order
             IN  IF status = "approved"
                 THEN AddHistory([d1 EXCEPT !.orders[o].status = "paid"],
                                 o, "paid", "Payment confirmed via webhook")
                 ELSE d1
        ELSE db

\* The body of StripeWebhookView.post once the result has id and status.
ApplyStripe(db, id, status) ==
    LET p == PaymentByGatewayId(db.payments, id)
    IN  IF p # 0 /\ StatusDiffers(db.payments[p].status, status)
        THEN LET d1 == [db EXCEPT !.payments[p].status = status]
                 o == db.payments[p].order
             IN  IF status = "approved"
                 THEN [d1 EXCEPT !.orders[o].status = "paid"]
                 ELSE d1
        ELSE db

HistoryFits(db) ==
    \A o \in 1..Len(db.orders) : Len(db.orders[o].history) <= MaxHistory

\* MercadoPagoWebhookView.post
MercadoPagoWebhook(action, id, raw) ==
    LET status == MercadoPagoProcessWebhook(action, id, raw)
        post == IF status \in {"error", None} THEN DB
                ELSE ApplyMercadoPago(DB, id, status)
    IN  /\ HistoryFits(post)
        /\ Commit(post)
        /\ lastOp' = [op |-> "webhookMercadoPago",
                      arg |-> <<action, id, raw>>,
                      res |-> IF status = "error" THEN "400" ELSE "200"]

\* StripeWebhookView.post
StripeWebhook(sigOk, type, id) ==
    LET status == StripeProcessWebhook(sigOk, type)
        post == IF status \in {"error", None} THEN DB
                ELSE ApplyStripe(DB, id, status)
    IN  /\ Commit(post)
        /\ lastOp' = [op |-> "webhookStripe",
                      arg |-> <<sigOk, type, id>>,
                      res |-> IF status = "error" THEN "400" ELSE "200"]

----------------------------------------------------------------------------
(* Requests served concurrently *)

\* MercadoPagoWebhookView.post statement by statement; the view opens no
\* transaction, so every statement is committed on its own and the
\* statements of two deliveries can interleave.
\* First statement: process_webhook and the Payment lookup; the delivery
\* ends here unless it has a payment whose status it changes.
WebhookRead(pr, id, raw) ==
    /\ inflight[pr] = Idle
    /\ LET status == MercadoPagoProcessWebhook("payment.updated", id, raw)
           p == PaymentByGatewayId(payments, id)
       IN  IF \/ status \in {"error", None}
              \/ p = 0
              \/ ~StatusDiffers(payments[p].status, status)
           THEN /\ Commit(DB)
                /\ lastOp' = [op |-> "webhookMercadoPago",
                              arg |-> <<"payment.updated", id, raw>>,
                              res |-> IF status = "error"
                                      THEN "400" ELSE "200"]
           ELSE /\ Write(DB)
                /\ inflight' = [inflight EXCEPT ![pr] =
                                   [op |-> "webhook", pc |-> "save_payment",
                                    id |-> id, raw |-> raw,
                                    payment |-> p, status |-> status]]
                /\ UNCHANGED lastOp

\* The delivery is over: 200 is returned.
WebhookDone(pr) ==
    /\ inflight' = [inflight EXCEPT ![pr] = Idle]
    /\ lastOp' = [op |-> "webhookMercadoPago",
                  arg |-> <<"payment.updated", inflight[pr].id,
                            inflight[pr].raw>>,
                  res |-> "200"]

\* payment.status = result["status"]; payment.save()
WebhookSavePayment(pr) ==
    /\ inflight[pr].op = "webhook"
    /\ inflight[pr].pc = "save_payment"
    /\ Write([DB EXCEPT
                !.payments[inflight[pr].payment].status = inflight[pr].status])
    /\ IF inflight[pr].status = "approved"
       THEN /\ inflight' = [inflight EXCEPT ![pr].pc = "save_order"]
            /\ UNCHANGED lastOp
       ELSE WebhookDone(pr)

\* payment.order.status = "paid"; payment.order.save()
WebhookSaveOrder(pr) ==
    /\ inflight[pr].op = "webhook"
    /\ inflight[pr].pc = "save_order"
    /\ Write([DB EXCEPT
                !.orders[payments[inflight[pr].payment].order].status =
                    "paid"])
    /\ inflight' = [inflight EXCEPT ![pr].pc = "history"]
    /\ UNCHANGED lastOp

\* OrderStatusHistory.objects.create(status="paid", ...)
WebhookAddHistory(pr) ==
    /\ inflight[pr].op = "webhook"
    /\ inflight[pr].pc = "history"
    /\ LET post == AddHistory(DB, payments[inflight[pr].payment].order,
                              "paid", "Payment confirmed via webhook")
       IN  /\ HistoryFits(post)
           /\ Write(post)
    /\ WebhookDone(pr)

\* OrderViewSet.cancel in two pieces: get_object and the can_cancel test
\* run before the atomic block is opened, so another request can commit
\* between the test and the block.
CancelCheck(pr, u, o) ==
    /\ inflight[pr] = Idle
    /\ o \in 1..Len(orders)
    /\ IF orders[o].user # u
       THEN /\ Commit(DB)
            /\ lastOp' = [op |-> "cancel", arg |-> <<u, o>>,
                          res |-> "NotFound"]
       ELSE IF ~CanCancel(orders[o].status)
       THEN /\ Commit(DB)
            /\ lastOp' = [op |-> "cancel", arg |-> <<u, o>>,
                          res |-> "OrderNotCancellable"]
       ELSE /\ Write(DB)
            /\ inflight' = [inflight EXCEPT ![pr] =
                               [op |-> "cancel", pc |-> "atomic",
                                user |-> u, order |-> o]]
            /\ UNCHANGED lastOp

\* The atomic block of OrderViewSet.cancel, run and committed as a whole.
CancelAtomic(pr) ==
    /\ inflight[pr].op = "cancel"
    /\ LET o == inflight[pr].order
       IN  /\ Len(orders[o].history) < MaxHistory
           /\ Write(AddHistory(
                  [DB EXCEPT
                     !.stock = ReleaseStock(stock, orders[o].items),
                     !.orders[o].status = "cancelled",
                     !.released[o] = @ + 1],
                  o, "cancelled", "Cancelled by customer"))
           /\ inflight' = [inflight EXCEPT ![pr] = Idle]
           /\ lastOp' = [op |-> "cancel",
                         arg |-> <<inflight[pr].user, o>>, res |-> "ok"]

\* CheckoutView.post in two pieces.  The view is one transaction; without
\* row locks (no select_for_update, no F() expression) two transactions can
\* both read before either commits.  First piece: the reads of the cart,
\* its lines, its coupon row and the Stock rows; the addresses are the
\* user's own.
CheckoutRead(pr, u, mode) ==
    /\ inflight[pr] = Idle
    /\ IF CartIsEmpty(carts[u])
       THEN /\ Commit(DB)
            /\ lastOp' = [op |-> "checkout", arg |-> <<u>>,
                          res |-> "CartEmpty"]
       ELSE /\ Write(DB)
            /\ inflight' = [inflight EXCEPT ![pr] =
                               [op |-> "checkout", pc |-> "commit",
                                user |-> u, mode |-> mode,
                                cart |-> carts[u], stock |-> stock,
                                order_count |-> order_count,
                                times_used |-> times_used]]
            /\ UNCHANGED lastOp

\* Second piece: the writes, computed from the objects read in the first
\* piece, and the commit.  fresh: the Stock rows were read after the other
\* transaction's commit rather than before it.  ok: the database accepted
\* the transaction (FALSE: it refused it, e.g. "database is locked", and
\* the view rolled back).  save() writes the rows of the cart's lines and
\* of its coupon only; the other rows keep what is in the database.
CheckoutCommit(pr, fresh, ok, cap) ==
    /\ inflight[pr].op = "checkout"
    /\ Len(orders) < cap
    /\ LET u == inflight[pr].user
           cart == inflight[pr].cart
           seen == [DB EXCEPT
                      !.carts[u] = cart,
                      !.stock = IF fresh THEN stock ELSE inflight[pr].stock,
                      !.order_count = inflight[pr].order_count,
                      !.times_used = inflight[pr].times_used]
           post == CheckoutUpTo(seen, u, inflight[pr].mode, CheckoutSteps)
           written ==
               [post EXCEPT
                  !.stock =
                      [p \in StockedProducts |->
                          IF p \in CartLines(cart)
                          THEN post.stock[p] ELSE stock[p]],
                  !.order_count =
                      [p \in Products |->
                          IF p \in CartLines(cart)
                          THEN post.order_count[p] ELSE order_count[p]],
                  !.times_used =
                      [c \in AllCouponCodes |->
                          IF c = cart.coupon
                          THEN post.times_used[c] ELSE times_used[c]]]
       IN  /\ Write(TxResult(ok, DB, written))
           /\ inflight' = [inflight EXCEPT ![pr] = Idle]
           /\ lastOp' = [op |-> "checkout", arg |-> <<u>>,
                         res |-> IF ok THEN "ok" ELSE "error"]

----------------------------------------------------------------------------
(* Specifications *)

\* Statuses the admin requests in the model.
AdminStatuses == {"paid", "shipped", "delivered", "cancelled"}

AddItemStep(US, PS) ==
    \E u \in US, p \in PS, q \in 1..MaxQty : AddItem(u, p, q)

UpdateItemStep(US, PS) ==
    \E u \in US, p \in PS, q \in 1..MaxQty : UpdateItemQuantity(u, p, q)

ApplyCouponStep(US, CS) ==
    \E u \in US, c \in CS : ApplyCoupon(u, c)

ViewCartStep(US, KS) ==
    \E u \in US, sk \in KS : ViewCart(u, sk)

SessionAddItemStep(KS, PS) ==
    \E sk \in KS, p \in PS, q \in 1..MaxQty : SessionAddItem(sk, p, q)

CheckoutStep(US, DS, cap) ==
    \E u \in US, addrOk \in BOOLEAN, mode \in RoundingModes, done \in DS :
        Checkout(u, addrOk, mode, done, TRUE, cap)

\* Checkouts whose steps all run, with either outcome of the dispatch of
\* the confirmation e-mail.
CheckoutNotifyStep(US, cap) ==
    \E u \in US, mode \in RoundingModes, sent \in BOOLEAN :
        Checkout(u, TRUE, mode, CheckoutSteps, sent, cap)

CancelStep(US) ==
    \E u \in US, o \in 1..MaxOrders : Cancel(u, o)

UpdateStatusStep ==
    \E o \in 1..MaxOrders, s \in AdminStatuses : UpdateStatus(o, s)

CreatePaymentStep(US, RS, cap) ==
    \E u \in US, o \in 1..MaxOrders, gw \in Gateways, success \in BOOLEAN :
        \E raw \in GatewayStatuses(gw) \cap RS :
            CreatePayment(u, o, gw, success, raw, cap)

\* An admin may request any status of Order.STATUS_CHOICES.
UpdateStatusAnyStep ==
    \E o \in 1..MaxOrders, s \in OrderStatuses : UpdateStatus(o, s)

RefundStep(US) ==
    \E u \in US, p \in 1..MaxPayments, success \in BOOLEAN :
        Refund(u, p, success)

MercadoPagoWebhookStep(AS, IS, RS) ==
    \E action \in AS, id \in IS, raw \in RS :
        MercadoPagoWebhook(action, id, raw)

StripeWebhookStep(SS, TS, IS) ==
    \E sigOk \in SS, type \in TS, id \in IS : StripeWebhook(sigOk, type, id)

MercadoPagoActions == {"payment.updated", "payment.created"}

StripeEventTypes ==
    {"payment_intent.succeeded", "payment_intent.payment_failed",
     "charge.updated"}

AllStatuses == MercadoPagoStatuses \cup StripeStatuses

CalculateDiscountStep ==
    \E type \in DiscountTypes, value \in DiscountValues,
       max \in MaxDiscounts, order_value \in 0..MaxOrderValue :
        CalculateDiscountCall(type, value, max, order_value)

\* Calls of Coupon.calculate_discount alone.
NextCoupon == CalculateDiscountStep

SpecCoupon == Init /\ [][NextCoupon]_vars

\* Cart and checkout requests of one customer for up to two orders, over
\* the product without a Stock row and one product with a Stock row.
NextCart ==
    \/ AddItemStep({1}, {0, 1})
    \/ UpdateItemStep({1}, {0, 1})
    \/ ApplyCouponStep({1}, CouponCodes)
    \/ CheckoutStep({1}, {CheckoutSteps}, 2)

SpecCart == Init /\ [][NextCart]_vars

\* Cart requests and checkouts of one customer, the dispatch of the
\* confirmation e-mail succeeding or failing.
NextNotify ==
    \/ AddItemStep({1}, {0, 1})
    \/ ApplyCouponStep({1}, CouponCodes)
    \/ CheckoutNotifyStep({1}, 2)

SpecNotify == Init /\ [][NextNotify]_vars

\* Cart requests of customer 1 with every coupon, while customer 2 uses up
\* the coupon that has a usage limit.
NextCartValues ==
    \/ AddItemStep({1}, {0, 1})
    \/ UpdateItemStep({1}, {0, 1})
    \/ ApplyCouponStep({1}, AllCouponCodes)
    \/ AddItemStep({2}, {1})
    \/ ApplyCouponStep({2}, {"HALF"})
    \/ CheckoutStep({2}, {CheckoutSteps}, 1)

SpecCartValues == Init /\ [][NextCartValues]_vars

\* Anonymous carts and the cart requests of users who log in.
NextSession ==
    \/ SessionAddItemStep(SessionKeys, {0, 1})
    \/ ViewCartStep(Users, SessionKeys \cup {None})

SpecSession == Init /\ [][NextSession]_vars

WebhookReadStep(IS, RS) ==
    \E pr \in Procs, id \in IS, raw \in RS : WebhookRead(pr, id, raw)

WebhookSavePaymentStep == \E pr \in Procs : WebhookSavePayment(pr)

WebhookSaveOrderStep == \E pr \in Procs : WebhookSaveOrder(pr)

WebhookAddHistoryStep == \E pr \in Procs : WebhookAddHistory(pr)

\* One order with pending payments, and deliveries of the Mercado Pago
\* webhook reporting approved, served concurrently.
NextWebhookRace ==
    \/ AddItemStep({1}, {1})
    \/ CheckoutStep({1}, {CheckoutSteps}, 1)
    \/ CreatePaymentStep({1}, {"unknown"}, MaxPayments)
    \/ WebhookReadStep(1..MaxPayments, {"approved"})
    \/ WebhookSavePaymentStep
    \/ WebhookSaveOrderStep
    \/ WebhookAddHistoryStep

SpecWebhookRace == Init /\ [][NextWebhookRace]_vars

CancelCheckStep(US) ==
    \E pr \in Procs, u \in US, o \in 1..MaxOrders : CancelCheck(pr, u, o)

CancelAtomicStep == \E pr \in Procs : CancelAtomic(pr)

\* Orders of one customer on one stock record, and cancel calls served
\* concurrently.
NextCancelRace ==
    \/ AddItemStep({1}, {1})
    \/ CheckoutStep({1}, {CheckoutSteps}, MaxOrders)
    \/ CancelCheckStep({1})
    \/ CancelAtomicStep

SpecCancelRace == Init /\ [][NextCancelRace]_vars

\* PU: the (process, user) pairs, i.e. whose requests each process serves.
CheckoutReadStep(PU) ==
    \E pu \in PU, mode \in RoundingModes : CheckoutRead(pu[1], pu[2], mode)

CheckoutCommitStep(cap) ==
    \E pr \in Procs, fresh \in BOOLEAN, ok \in BOOLEAN :
        CheckoutCommit(pr, fresh, ok, cap)

\* Carts of two customers with the same coupon; the checkouts of one
\* customer are served by one process, those of the other by the other.
NextCouponRace ==
    \/ AddItemStep({1, 2}, {1})
    \/ ApplyCouponStep({1, 2}, {"BIG"})
    \/ CheckoutReadStep({<<1, 1>>, <<2, 2>>})
    \/ CheckoutCommitStep(MaxOrders)

SpecCouponRace == Init /\ [][NextCouponRace]_vars

\* The cart of one customer, and checkouts of it served concurrently.
NextCheckoutRace ==
    \/ AddItemStep({1}, {1})
    \/ CheckoutReadStep({<<1, 1>>, <<2, 1>>})
    \/ CheckoutCommitStep(MaxOrders)

SpecCheckoutRace == Init /\ [][NextCheckoutRace]_vars

\* Cart and checkout requests of every user.
NextCheckout ==
    \/ AddItemStep(Users, StockedProducts)
    \/ UpdateItemStep(Users, StockedProducts)
    \/ ApplyCouponStep(Users, CouponCodes \cup {None})
    \/ CheckoutStep(Users, 0..CheckoutSteps, MaxOrders)

SpecCheckout == Init /\ [][NextCheckout]_vars

\* Checkout, cancellation and admin status updates.
NextOrders ==
    \/ AddItemStep(Users, StockedProducts)
    \/ CheckoutStep(Users, {CheckoutSteps}, MaxOrders)
    \/ CancelStep(Users)
    \/ UpdateStatusStep

SpecOrders == Init /\ [][NextOrders]_vars

\* One order of one customer: cancellation by any user, with admin updates
\* to any status.
NextCancel ==
    \/ AddItemStep({1}, {1})
    \/ CheckoutStep({1}, {CheckoutSteps}, 1)
    \/ CancelStep(Users)
    \/ UpdateStatusAnyStep

SpecCancel == Init /\ [][NextCancel]_vars

\* Checkout, payment creation, refunds and webhooks of one customer.
NextPayments ==
    \/ AddItemStep({1}, StockedProducts)
    \/ CheckoutStep({1}, {CheckoutSteps}, 1)
    \/ CreatePaymentStep({1}, AllStatuses, MaxPayments)
    \/ RefundStep({1})
    \/ MercadoPagoWebhookStep(MercadoPagoActions, 0..MaxPayments,
                              MercadoPagoStatuses \cup {"error"})
    \/ StripeWebhookStep(BOOLEAN, StripeEventTypes, 1..MaxPayments)

SpecPayments == Init /\ [][NextPayments]_vars

\* Every request that touches an order, for one order of one product.
NextShipping ==
    \/ AddItemStep({1}, {1})
    \/ CheckoutStep({1}, {CheckoutSteps}, 1)
    \/ CancelStep({1})
    \/ UpdateStatusStep
    \/ CreatePaymentStep({1}, {"approved", "succeeded", "unknown"}, 1)
    \/ RefundStep({1})
    \/ MercadoPagoWebhookStep({"payment.updated"}, {1},
                              {"approved", "rejected"})
    \/ StripeWebhookStep({TRUE}, {"payment_intent.succeeded"}, {1})

SpecShipping == Init /\ [][NextShipping]_vars

\* Every request of one customer, on one order.
Next ==
    \/ AddItemStep({1}, StockedProducts)
    \/ ApplyCouponStep({1}, CouponCodes)
    \/ CheckoutStep({1}, {CheckoutSteps}, 1)
    \/ CancelStep({1})
    \/ UpdateStatusStep
    \/ CreatePaymentStep({1}, {"approved", "succeeded", "unknown"}, 1)
    \/ RefundStep({1})
    \/ MercadoPagoWebhookStep({"payment.updated"}, {1},
                              {"approved", "rejected"})
    \/ StripeWebhookStep({TRUE}, {"payment_intent.succeeded"}, {1})

Spec == Init /\ [][Next]_vars

----------------------------------------------------------------------------
(* Claims *)

\* The order's lines that have a Stock row.
StockedLines(o) == DOMAIN orders[o].items \cap StockedProducts

\* C1: every Order satisfies total = subtotal - discount + shipping_cost,
\* for any cart and any applied coupon, at every point after its creation.
C1_TotalBalances ==
    \A o \in 1..Len(orders) :
        orders[o].total =
            orders[o].subtotal - orders[o].discount + orders[o].shipping_cost

\* C2: over any sequence of cancel and updateStatus calls, the reservation
\* of an order is taken off the stock record exactly once: never twice, and
\* never zero times once the order is cancelled or shipped.
C2_ReleasedExactlyOnce ==
    \A o \in 1..Len(orders) :
        StockedLines(o) # {} =>
            /\ released[o] <= 1
            /\ orders[o].status \in {"cancelled", "shipped"} => released[o] = 1

\* C3: after any sequence of checkout, cancel and updateStatus calls every
\* stock record has quantity >= 0 and reserved_quantity >= 0.
C3_StockNeverNegative ==
    \A p \in StockedProducts :
        stock[p].quantity >= 0 /\ stock[p].reserved_quantity >= 0

\* C3 witness: a shipment that would have driven a stock column below zero
\* was attempted and refused.
C3_Witness ==
    /\ lastOp.op = "updateStatus"
    /\ lastOp.res = "IntegrityError"
    /\ lastOp.arg[2] = "shipped"

\* C4: a cancel that directly follows a successful cancel of the same order
\* is rejected and leaves stock, order status and status history unchanged.
C4_SecondCancelRejected ==
    [][(/\ lastOp.op = "cancel"
        /\ lastOp.res = "ok"
        /\ lastOp'.op = "cancel"
        /\ lastOp'.arg[2] = lastOp.arg[2])
       => (/\ lastOp'.res # "ok"
           /\ stock' = stock
           /\ orders' = orders
           /\ released' = released)]_vars

\* C4 witness: a cancel was rejected on an order whose latest history entry
\* is the customer's own cancellation.
C4_Witness ==
    /\ lastOp.op = "cancel"
    /\ lastOp.res = "OrderNotCancellable"
    /\ LET o == lastOp.arg[2]
           h == orders[o].history
       IN  /\ orders[o].status = "cancelled"
           /\ h[Len(h)] =
                  [status |-> "cancelled", notes |-> "Cancelled by customer"]
           /\ StockedLines(o) # {}

\* C5: for either gateway, delivering the same webhook payload a second
\* time directly after the first leaves payments, order statuses and status
\* histories as the first delivery left them.
C5_WebhookIdempotent ==
    [][(/\ lastOp.op \in {"webhookMercadoPago", "webhookStripe"}
        /\ lastOp'.op = lastOp.op
        /\ lastOp'.arg = lastOp.arg)
       => (payments' = payments /\ orders' = orders)]_vars

\* C5 witness: a Mercado Pago delivery has approved a payment and moved
\* its order to paid with the webhook's history entry.
C5_Witness ==
    /\ lastOp.op = "webhookMercadoPago"
    /\ \E p \in 1..Len(payments) :
          LET h == orders[payments[p].order].history
          IN  /\ payments[p].gateway_payment_id = lastOp.arg[2]
              /\ payments[p].status = "approved"
              /\ orders[payments[p].order].status = "paid"
              /\ h[Len(h)] = [status |-> "paid",
                              notes |-> "Payment confirmed via webhook"]

\* C6: a checkout that fails (empty cart, address not found, or an error
\* raised at any later step) leaves no order, item, coupon usage or history
\* row and changes no stock, order count, times_used or cart; and every
\* Order has at least one OrderItem.
C6_FailedCheckoutAtomic ==
    /\ [][(lastOp'.op = "checkout" /\ lastOp'.res # "ok")
          => UNCHANGED <<stock, order_count, carts, times_used, usages,
                         orders, payments, released>>]_vars
    /\ [](\A o \in 1..Len(orders) : DOMAIN orders[o].items # {})

\* C6 witness: a checkout of a cart with lines and a coupon failed with an
\* error raised after the cart and address checks.
C6_Witness ==
    /\ lastOp.op = "checkout"
    /\ lastOp.res = "error"
    /\ CartLines(carts[lastOp.arg[1]]) # {}
    /\ carts[lastOp.arg[1]].coupon # None

\* C7: when the gateway adapter answers success = false, then after
\* createPayment has failed with PaymentFailed a Payment row of that attempt
\* exists in status rejected and the order is as before.
C7_FailedPaymentRecorded ==
    [][(lastOp'.op = "createPayment" /\ lastOp'.res = "PaymentFailed")
       => (/\ Len(payments') = Len(payments) + 1
           /\ payments'[Len(payments')].order = lastOp'.arg[2]
           /\ payments'[Len(payments')].status = "rejected"
           /\ orders' = orders)]_vars

\* C8: a payment that is approved, rejected, refunded or cancelled never
\* returns to pending or processing, and a rejected payment never becomes
\* approved (the part of the payment state machine the claim singles out).
C8_TerminalStatusesStay ==
    [][\A p \in 1..Len(payments) :
          /\ (payments[p].status \in
                  {"approved", "rejected", "refunded", "cancelled"}
              => payments'[p].status \notin {"pending", "processing"})
          /\ (payments[p].status = "rejected"
              => payments'[p].status # "approved")]_vars

\* C9: after any sequence of addItem, updateItemQuantity and checkout calls
\* every stock record has reserved_quantity <= quantity.
C9_NeverOversold ==
    \A p \in StockedProducts :
        stock[p].reserved_quantity <= stock[p].quantity

\* C10: for every coupon with a non-null usage_limit, after any sequence of
\* applyCoupon and checkout calls, times_used <= usage_limit.
C10_UsageLimitRespected ==
    \A c \in CouponCodes :
        CouponCfg(c).usage_limit # Null =>
            times_used[c] <= CouponCfg(c).usage_limit

\* C11: after any sequence of applyCoupon and checkout calls, the number of
\* CouponUsage rows of a (coupon, user) pair is at most the coupon's
\* usage_limit_per_user.
C11_PerUserLimitRespected ==
    \A c \in CouponCodes, u \in Users :
        Cardinality({x \in usages : x.coupon = c /\ x.user = u})
            <= CouponCfg(c).usage_limit_per_user

\* C12: for either discount type, any discount value, with or without a
\* maximum discount, and any order value >= 0, calculate_discount returns
\* an amount d with 0 <= d <= order value.
C12_DiscountWithinOrderValue ==
    lastOp.op = "calculateDiscount" =>
        /\ 0 <= lastOp.res
        /\ lastOp.res <= lastOp.arg[4] * 100

RECURSIVE SumItemTotals(_, _)
SumItemTotals(S, items) ==
    IF S = {} THEN 0
    ELSE LET p == CHOOSE x \in S : TRUE
         IN  items[p].total_price + SumItemTotals(S \ {p}, items)

\* C14: for every order created by checkout, the total_price of its
\* OrderItems sums to the order's subtotal, and every OrderItem has
\* total_price = unit_price * quantity.
C14_ItemTotalsSumToSubtotal ==
    \A o \in 1..Len(orders) :
        /\ SumItemTotals(DOMAIN orders[o].items, orders[o].items)
               = orders[o].subtotal
        /\ \A p \in DOMAIN orders[o].items :
               orders[o].items[p].total_price =
                   orders[o].items[p].unit_price * orders[o].items[p].quantity

\* C14 witness: an order with two lines, one of them of quantity 2.
C14_Witness ==
    \E o \in 1..Len(orders) :
        /\ Cardinality(DOMAIN orders[o].items) = 2
        /\ \E p \in DOMAIN orders[o].items : orders[o].items[p].quantity = 2

\* C15: a successful checkout of a cart with an applied coupon raises that
\* coupon's times_used by exactly 1 and creates exactly one CouponUsage
\* row; for every cart line with a Stock row it raises reserved_quantity by
\* exactly the line quantity and leaves quantity unchanged; a line without
\* a Stock row changes no stock.
C15_CheckoutEffects ==
    [][(lastOp'.op = "checkout" /\ lastOp'.res = "ok")
       => LET u == lastOp'.arg[1]
              cart == carts[u]
              o == Len(orders')
          IN  /\ cart.coupon # None =>
                    /\ times_used' =
                           [times_used EXCEPT ![cart.coupon] = @ + 1]
                    /\ usages \subseteq usages'
                    /\ usages' \ usages =
                           {[coupon |-> cart.coupon, user |-> u, order |-> o]}
              /\ DOMAIN stock' = DOMAIN stock
              /\ \A p \in DOMAIN stock :
                    /\ stock'[p].quantity = stock[p].quantity
                    /\ stock'[p].reserved_quantity =
                           stock[p].reserved_quantity + cart.items[p]]_vars

\* C15 witness: a checkout succeeded for a cart with a coupon, a line with
\* a Stock row and a line without one.
C15_Witness ==
    /\ lastOp.op = "checkout"
    /\ lastOp.res = "ok"
    /\ LET o == Len(orders)
       IN  /\ orders[o].coupon # None
           /\ \E p \in DOMAIN orders[o].items : HasStock(p)
           /\ \E p \in DOMAIN orders[o].items : ~HasStock(p)
           /\ \E p \in StockedProducts : stock[p].reserved_quantity > 0

C17_CancelOnlyWhenCancellable ==
    [][(lastOp'.op = "cancel" /\ orders[lastOp'.arg[2]].user = lastOp'.arg[1])
       => LET o == lastOp'.arg[2]
          IN  IF orders[o].status \in {"pending", "awaiting_payment", "paid"}
              THEN /\ lastOp'.res = "ok"
                   /\ orders'[o].status = "cancelled"
              ELSE /\ lastOp'.res = "OrderNotCancellable"
                   /\ stock' = stock
                   /\ orders' = orders]_vars

\* C17 witness: the owner's cancel of a delivered order was refused.
C17_Witness ==
    /\ lastOp.op = "cancel"
    /\ lastOp.res = "OrderNotCancellable"
    /\ orders[lastOp.arg[2]].status = "delivered"
    /\ StockedLines(lastOp.arg[2]) # {}
    /\ \E p \in StockedProducts : stock[p].reserved_quantity > 0

\* C18: a refund succeeds only for a payment in status approved; when it
\* succeeds the Payment and its Order both end in refunded; when the payment
\* is not approved or the gateway reports failure, payments and orders are
\* left unchanged.
C18_RefundOnlyApproved ==
    [][lastOp'.op = "refund"
       => LET p == lastOp'.arg[2]
          IN  IF lastOp'.res = "ok"
              THEN /\ payments[p].status = "approved"
                   /\ payments'[p].status = "refunded"
                   /\ orders'[payments[p].order].status = "refunded"
              ELSE /\ payments' = payments
                   /\ orders' = orders]_vars

\* C18 witness: a refund succeeded and left the payment and its order in
\* refunded.
C18_Witness ==
    /\ lastOp.op = "refund"
    /\ lastOp.res = "ok"
    /\ payments[lastOp.arg[2]].status = "refunded"
    /\ orders[payments[lastOp.arg[2]].order].status = "refunded"

\* C19: for Mercado Pago and Stripe alike, a webhook that changes a known
\* payment's status to approved sets the payment's order to paid and appends
\* exactly one history entry (paid, 'Payment confirmed via webhook').
C19_ApprovedWebhookRecorded ==
    [][\A p \in 1..Len(payments) :
          (/\ lastOp'.op \in {"webhookMercadoPago", "webhookStripe"}
           /\ payments[p].status # "approved"
           /\ payments'[p].status = "approved")
          => LET o == payments[p].order
             IN  /\ orders'[o].status = "paid"
                 /\ orders'[o].history =
                        Append(orders[o].history,
                               [status |-> "paid",
                                notes |-> "Payment confirmed via webhook"])]_vars

\* C20: the status history of an order is append-only with one entry per
\* transition; its oldest entry is (pending, 'Order created') and, after any
\* sequence of checkout, cancel, updateStatus, createPayment, refund and
\* webhook operations, the status of its newest entry is the order's status.
C20_HistoryTracksStatus ==
    /\ [](\A o \in 1..Len(orders) :
             LET h == orders[o].history
             IN  /\ Len(h) >= 1
                 /\ h[1] = [status |-> "pending", notes |-> "Order created"]
                 /\ h[Len(h)].status = orders[o].status)
    /\ [][\A o \in 1..Len(orders) :
             LET h == orders[o].history
                 g == orders'[o].history
             IN  /\ Len(g) >= Len(h)
                 /\ SubSeq(g, 1, Len(h)) = h
                 /\ orders'[o].status # orders[o].status
                        => Len(g) = Len(h) + 1]_vars

\* C21: when dispatching the order-confirmation notification fails during a
\* checkout, the checkout still commits: the order with its items and first
\* history row, the stock reservations, the coupon usage and the cleared
\* cart persist.
C21_NotificationFailureKeepsOrder ==
    [][(lastOp'.op = "checkout" /\ lastOp'.res = "NotificationError")
       => LET u == lastOp'.arg[1]
          IN  /\ Len(orders') = Len(orders) + 1
              /\ orders'[Len(orders')].user = u
              /\ DOMAIN orders'[Len(orders')].items = CartLines(carts[u])
              /\ \A p \in DOMAIN stock :
                    stock'[p].reserved_quantity =
                        stock[p].reserved_quantity + carts[u].items[p]
              /\ carts[u].coupon # None =>
                    times_used'[carts[u].coupon] =
                        times_used[carts[u].coupon] + 1
              /\ CartLines(carts'[u]) = {}]_vars

RECURSIVE SumUnitTimesQuantity(_, _)
SumUnitTimesQuantity(S, items) ==
    IF S = {} THEN 0
    ELSE LET p == CHOOSE x \in S : TRUE
         IN  Price(p) * items[p] + SumUnitTimesQuantity(S \ {p}, items)

\* C22: for every cart, subtotal is the sum of unit_price * quantity over
\* its lines; discount is 0 when no coupon is applied or the coupon is not
\* valid, and otherwise Coupon.calculate_discount(subtotal) of the applied
\* coupon; total is max(0, subtotal - discount), hence never negative.
C22_CartComputedValues ==
    \A u \in Users :
        LET cart == carts[u]
            sub == SumUnitTimesQuantity(Products, cart.items)
            disc == IF cart.coupon = None THEN 0
                    ELSE IF ~IsValid(cart.coupon, times_used[cart.coupon])
                    THEN 0
                    ELSE CalculateDiscount(CouponCfg(cart.coupon), sub)
        IN  /\ CartSubtotal(cart) = sub
            /\ CartDiscount(cart, times_used) = disc
            /\ CartTotal(cart, times_used) =
                   (IF sub * 100 >= disc THEN sub * 100 - disc ELSE 0)
            /\ CartTotal(cart, times_used) >= 0

\* C22 witness: a cart with lines whose applied coupon has stopped being
\* valid, its usage limit having been reached by another customer's order.
C22_Witness ==
    \E u \in Users :
        /\ CartLines(carts[u]) # {}
        /\ carts[u].coupon # None
        /\ ~IsValid(carts[u].coupon, times_used[carts[u].coupon])
        /\ \E o \in 1..Len(orders) : orders[o].coupon = carts[u].coupon

\* C23: the session cart is merged exactly once, by the request on which
\* the user's cart is first created: after it every quantity of the user
\* cart is the sum of what the two carts held and the session cart is
\* gone; a later request of that user moves or re-adds no cart item.
C23_MergeOnlyOnCreation ==
    [][lastOp'.op = "viewCart"
       => LET u == lastOp'.arg[1]
              sk == lastOp'.arg[2]
          IN  IF /\ ~carts[u].exists
                 /\ sk # None
                 /\ session_carts[sk].exists
              THEN /\ carts'[u].exists
                   /\ \A p \in Products :
                         carts'[u].items[p] =
                             carts[u].items[p] + session_carts[sk].items[p]
                   /\ ~session_carts'[sk].exists
                   /\ \A k \in SessionKeys \ {sk} :
                         session_carts'[k] = session_carts[k]
              ELSE /\ carts'[u].items = carts[u].items
                   /\ session_carts' = session_carts]_vars

\* C23 witness: a user whose cart holds merged lines sends a later request
\* with a session whose cart holds lines, and that cart stays.
C23_Witness ==
    /\ lastOp.op = "viewCart"
    /\ lastOp.arg[2] # None
    /\ CartLines(carts[lastOp.arg[1]]) # {}
    /\ session_carts[lastOp.arg[2]].exists
    /\ CartLines(session_carts[lastOp.arg[2]]) # {}

\* C24: when deliveries of the same approved webhook for one payment are
\* served concurrently, the state is that of a single delivery: at most one
\* 'Payment confirmed via webhook' entry per payment is appended to the
\* order's history.
C24_ConcurrentWebhookOnce ==
    \A o \in 1..Len(orders) :
        Cardinality({i \in 1..Len(orders[o].history) :
                        orders[o].history[i].notes =
                            "Payment confirmed via webhook"})
            <= Cardinality({p \in 1..Len(payments) :
                               payments[p].order = o})

\* The quantity of product p in the lines of the orders in S.
RECURSIVE SumOrderQty(_, _)
SumOrderQty(S, p) ==
    IF S = {} THEN 0
    ELSE LET o == CHOOSE x \in S : TRUE
         IN  (IF p \in DOMAIN orders[o].items
              THEN orders[o].items[p].quantity ELSE 0)
             + SumOrderQty(S \ {o}, p)

\* C26: when cancel calls for the same cancellable order are served
\* concurrently, at most one of them releases stock: reserved_quantity is
\* lowered by the line quantity at most once, so it still covers the orders
\* that are not cancelled, and at most one 'cancelled' history entry is
\* appended.
C26_ConcurrentCancelOnce ==
    /\ \A o \in 1..Len(orders) :
          Cardinality({i \in 1..Len(orders[o].history) :
                          orders[o].history[i].status = "cancelled"}) <= 1
    /\ \A p \in StockedProducts :
          stock[p].reserved_quantity >=
              SumOrderQty({o \in 1..Len(orders) :
                              orders[o].status # "cancelled"}, p)

\* C25: after any interleaving of successful checkouts by different users
\* whose carts carry the same coupon, the coupon's times_used has grown by
\* exactly the number of orders created with it, which is also the number
\* of CouponUsage rows created.
C25_TimesUsedCountsOrders ==
    \A c \in AllCouponCodes :
        /\ times_used[c] =
               Cardinality({o \in 1..Len(orders) : orders[o].coupon = c})
        /\ times_used[c] = Cardinality({x \in usages : x.coupon = c})

\* C27: when checkout calls of one user against the same cart are served
\* concurrently, at most one order is created from the cart's contents and
\* each line's quantity is added to reserved_quantity at most once: an
\* order that is committed takes lines the cart holds at that moment, and
\* reserved_quantity grows by no more than the cart holds.
C27_ConcurrentCheckoutOnce ==
    [][(lastOp'.op = "checkout" /\ lastOp'.res = "ok")
       => LET u == lastOp'.arg[1]
              o == Len(orders')
          IN  /\ Len(orders') = Len(orders) + 1
              /\ \A p \in DOMAIN orders'[o].items :
                    orders'[o].items[p].quantity <= carts[u].items[p]
              /\ \A p \in StockedProducts :
                    stock'[p].reserved_quantity - stock[p].reserved_quantity
                        <= carts[u].items[p]]_vars

\* The orders whose history holds no 'cancelled' and no 'shipped' entry.
OrdersHoldingStock ==
    {o \in 1..Len(orders) :
        \A i \in 1..Len(orders[o].history) :
            orders[o].history[i].status \notin {"cancelled", "shipped"}}

\* C28: reservation accounting. In every reachable state the
\* reserved_quantity of each stock record is its initial value (zero) plus
\* the line quantities of the orders on that product that have been
\* neither cancelled nor shipped.
C28_ReservationAccounting ==
    \A p \in StockedProducts :
        stock[p].reserved_quantity = SumOrderQty(OrdersHoldingStock, p)

\* The order's status is 'cancelled' and the customer's cancellation is the
\* last entry of its history.
CancelledByCustomer(o) ==
    /\ orders[o].status = "cancelled"
    /\ Len(orders[o].history) > 0
    /\ orders[o].history[Len(orders[o].history)].notes =
           "Cancelled by customer"

\* C29: once an order has been cancelled by the customer, a webhook that
\* arrives later, also one reporting approved for one of its payments,
\* leaves the order in status cancelled.
C29_CancelledStaysCancelled ==
    [][\A o \in 1..Len(orders) :
          (/\ CancelledByCustomer(o)
           /\ lastOp'.op \in {"webhookMercadoPago", "webhookStripe"})
          => orders'[o].status = "cancelled"]_vars

\* C30: an order is never charged twice. In every reachable state at most
\* one of the Payment rows of an order has status approved.
C30_AtMostOneApprovedPayment ==
    \A o \in 1..Len(orders) :
        Cardinality({p \in 1..Len(payments) :
                        /\ payments[p].order = o
                        /\ payments[p].status = "approved"}) <= 1

====
